---- MODULE Spec2Model ----
(***************************************************************************)
(* Model of scripts/parse-files.py: a batch client that walks an input     *)
(* tree, uploads every eligible document to a parsing API, one at a time,  *)
(* and mirrors the answers under <output>/json and <output>/markdown.      *)
(*                                                                         *)
(* File names, directory names and JSON strings are sequences of           *)
(* one-character strings, so that suffix extraction, lower-casing, the     *)
(* space replacement and Python's substring test are computed.             *)
(***************************************************************************)
EXTENDS Integers, Sequences, FiniteSets, TLC

\* ------------------------------------------------------------------ bounds
\* Largest number of entries placed in the input tree.
MaxEntries == 3

\* ------------------------------------------------------- character helpers
UpperChars == <<"A","B","C","D","E","F","G","H","I","J","K","L","M",
                "N","O","P","Q","R","S","T","U","V","W","X","Y","Z">>
LowerChars == <<"a","b","c","d","e","f","g","h","i","j","k","l","m",
                "n","o","p","q","r","s","t","u","v","w","x","y","z">>

\* str.lower() on one character.
LowerChar(c) ==
  IF \E i \in 1..Len(UpperChars) : UpperChars[i] = c
  THEN LowerChars[CHOOSE i \in 1..Len(UpperChars) : UpperChars[i] = c]
  ELSE c

\* str.lower()
Lower(s) == [i \in 1..Len(s) |-> LowerChar(s[i])]

\* str.rfind('.') as a 1-based index, 0 when there is no dot.
RFindDot(s) ==
  IF \E i \in 1..Len(s) : s[i] = "."
  THEN CHOOSE i \in 1..Len(s) : s[i] = "." /\ \A j \in (i+1)..Len(s) : s[j] # "."
  ELSE 0

\* pathlib's PurePath.suffix: the last dot and what follows it, unless the
\* dot is the first or the last character of the name.
Suffix(name) ==
  LET i == RFindDot(name)
  IN IF 1 < i /\ i < Len(name) THEN SubSeq(name, i, Len(name)) ELSE <<>>

\* pathlib's PurePath.stem
Stem(name) ==
  LET i == RFindDot(name)
  IN IF 1 < i /\ i < Len(name) THEN SubSeq(name, 1, i - 1) ELSE name

\* ------------------------------------------------------ program constants
IGNORE_FILES ==
  { <<".","D","S","_","S","t","o","r","e">>,
    <<"T","h","u","m","b","s",".","d","b">>,
    <<".","g","i","t","i","g","n","o","r","e">> }

VALID_EXTENSIONS ==
  { <<".","p","p","t">>, <<".","p","p","t","x">>, <<".","d","o","c">>,
    <<".","d","o","c","x">>, <<".","p","d","f">>, <<".","t","x","t">> }

\* should_process_file comparing the suffix without lower-casing it.
should_process_file_CaseSensitive(name) ==
  IF name \in IGNORE_FILES THEN FALSE
  ELSE IF Suffix(name) \notin VALID_EXTENSIONS THEN FALSE
  ELSE TRUE

\* DocumentProcessor.should_process_file
should_process_file(name) ==
  IF name \in IGNORE_FILES THEN FALSE
  ELSE IF Lower(Suffix(name)) \notin VALID_EXTENSIONS THEN FALSE
  ELSE TRUE

\* DocumentProcessor.get_safe_filename
get_safe_filename(s) == [i \in 1..Len(s) |-> IF s[i] = " " THEN "_" ELSE s[i]]

\* DocumentProcessor.get_relative_path, and the stem save_outputs derives:
\* an input file is [dir |-> directories below input_dir, name |-> base name,
\* kind |-> "file" or "dir"]; the path relative to input_dir is dir plus name.
get_relative_path(f) == [parent |-> f.dir, name |-> f.name]

\* --------------------------------------------------------------- the URL
\* Characters urllib accepts in a scheme.
SchemeChars ==
  {UpperChars[i] : i \in 1..26} \cup {LowerChars[i] : i \in 1..26}
    \cup {"0","1","2","3","4","5","6","7","8","9","+","-","."}

IsAlpha(c) == \E i \in 1..26 : UpperChars[i] = c \/ LowerChars[i] = c

\* str.find(c) as a 1-based index, 0 when absent.
Find(s, c) ==
  IF \E i \in 1..Len(s) : s[i] = c
  THEN CHOOSE i \in 1..Len(s) : s[i] = c /\ \A j \in 1..(i-1) : s[j] # c
  ELSE 0

\* urllib.parse.urlsplit, as far as scheme and netloc go: the scheme is what
\* precedes the first ':' when it starts with a letter and holds only scheme
\* characters; the netloc is what follows a leading '//' up to the first
\* '/', '?' or '#'. An unbalanced '[' or ']' in the netloc raises ValueError.
urlparse(url) ==
  LET i      == Find(url, ":")
      hasSch == /\ i > 1
                /\ IsAlpha(url[1])
                /\ \A j \in 1..(i-1) : url[j] \in SchemeChars
      scheme == IF hasSch THEN Lower(SubSeq(url, 1, i - 1)) ELSE <<>>
      rest   == IF hasSch THEN SubSeq(url, i + 1, Len(url)) ELSE url
      hasNet == Len(rest) >= 2 /\ rest[1] = "/" /\ rest[2] = "/"
      after  == IF hasNet THEN SubSeq(rest, 3, Len(rest)) ELSE <<>>
      stops  == {j \in 1..Len(after) : after[j] \in {"/", "?", "#"}}
      endNet == IF stops = {} THEN Len(after)
                ELSE (CHOOSE j \in stops : \A k \in stops : j <= k) - 1
      netloc == SubSeq(after, 1, endNet)
      open   == \E j \in 1..Len(netloc) : netloc[j] = "["
      close  == \E j \in 1..Len(netloc) : netloc[j] = "]"
  IN [scheme |-> scheme, netloc |-> netloc, error |-> hasNet /\ (open # close)]

\* validate_url accepting a url that has a scheme or a netloc.
validate_url_Any(url) ==
  LET result == urlparse(url)
  IN IF result.error THEN FALSE
     ELSE result.scheme # <<>> \/ result.netloc # <<>>

\* validate_url: TRUE when the url is returned, FALSE when
\* argparse.ArgumentTypeError is raised (urlparse failed, or scheme or
\* netloc is empty).
validate_url(url) ==
  LET result == urlparse(url)
  IN IF result.error THEN FALSE
     ELSE result.scheme # <<>> /\ result.netloc # <<>>

\* str.rstrip('/')
RECURSIVE rstrip(_)
rstrip(s) ==
  IF s # <<>> /\ s[Len(s)] = "/" THEN rstrip(SubSeq(s, 1, Len(s) - 1)) ELSE s

\* ------------------------------------------------------------ JSON values
\* A parsed body is [k |-> kind, v |-> characters or digits of a scalar,
\* items |-> members of an object or an array]; a member is
\* [key |-> name ("" in an array), val |-> a scalar].
JStr(chars)  == [k |-> "string", v |-> chars, items |-> <<>>]
JNum(digits) == [k |-> "number", v |-> digits, items |-> <<>>]
JNull        == [k |-> "null",   v |-> <<>>,   items |-> <<>>]
JObj(items)  == [k |-> "object", v |-> <<>>,   items |-> items]
JArr(items)  == [k |-> "array",  v |-> <<>>,   items |-> items]

TEXT == <<"t","e","x","t">>

\* The bodies the API may answer with.
JsonValues ==
  { JObj(<<>>),
    JObj(<<[key |-> "text", val |-> JStr(<<"h","i">>)]>>),
    JObj(<<[key |-> "summary", val |-> JStr(<<"o","k">>)]>>),
    JObj(<<[key |-> "summary", val |-> JStr(<<"o","k">>)],
           [key |-> "text", val |-> JStr(<<>>)]>>),
    JObj(<<[key |-> "text", val |-> JNum(<<"5">>)]>>),
    JArr(<<>>),
    JArr(<<[key |-> "", val |-> JStr(TEXT)]>>),
    JStr(<<"a", "t","e","x","t">>),
    JNum(<<"0">>),
    JNum(<<"5">>),
    JNull }

\* Python truth value of a parsed body (`if response_data:`).
Truthy(j) ==
  CASE j.k = "object" -> j.items # <<>>
    [] j.k = "array"  -> j.items # <<>>
    [] j.k = "string" -> j.v # <<>>
    [] j.k = "number" -> j.v # <<"0">>
    [] OTHER          -> FALSE

\* Python substring test.
IsSubstring(a, b) ==
  \E i \in 0..(Len(b) - Len(a)) : SubSeq(b, i + 1, i + Len(a)) = a

\* `'text' in response_data`: "yes", "no", or "TypeError" for a value that
\* is not a container.
ContainsText(j) ==
  CASE j.k = "object" ->
         IF \E i \in 1..Len(j.items) : j.items[i].key = "text" THEN "yes" ELSE "no"
    [] j.k = "array" ->
         IF \E i \in 1..Len(j.items) :
              j.items[i].val.k = "string" /\ j.items[i].val.v = TEXT
         THEN "yes" ELSE "no"
    [] j.k = "string" -> IF IsSubstring(TEXT, j.v) THEN "yes" ELSE "no"
    [] OTHER -> "TypeError"

\* `response_data['text']` followed by f.write(...): the characters written,
\* or "TypeError" when the subscript fails (not an object) or the value is
\* not a str.
TextToWrite(j) ==
  IF j.k # "object" THEN [error |-> TRUE, chars |-> <<>>]
  ELSE LET i == CHOOSE i \in 1..Len(j.items) : j.items[i].key = "text"
           x == j.items[i].val
       IN IF x.k = "string" THEN [error |-> FALSE, chars |-> x.v]
          ELSE [error |-> TRUE, chars |-> <<>>]

\* json.dump(..., indent=2, ensure_ascii=False) of a scalar.
DumpScalar(x) ==
  CASE x.k = "string" -> <<"\"">> \o x.v \o <<"\"">>
    [] x.k = "number" -> x.v
    [] OTHER          -> <<"null">>

RECURSIVE DumpItems(_, _)
DumpItems(items, isObject) ==
  IF items = <<>> THEN <<>>
  ELSE LET it   == Head(items)
           one  == <<"\n", " ", " ">>
                     \o (IF isObject THEN <<"\"", it.key, "\"", ":", " ">> ELSE <<>>)
                     \o DumpScalar(it.val)
           rest == DumpItems(Tail(items), isObject)
       IN IF rest = <<>> THEN one ELSE one \o <<",">> \o rest

\* json.dump(response_data, f, indent=2, ensure_ascii=False): the text of
\* the structured-data artifact. Members keep the order of the response.
Dump(j) ==
  CASE j.k = "object" ->
         IF j.items = <<>> THEN <<"{", "}">>
         ELSE <<"{">> \o DumpItems(j.items, TRUE) \o <<"\n", "}">>
    [] j.k = "array" ->
         IF j.items = <<>> THEN <<"[", "]">>
         ELSE <<"[">> \o DumpItems(j.items, FALSE) \o <<"\n", "]">>
    [] OTHER -> DumpScalar(j)

\* ----------------------------------------------------------- the inputs
DirA    == <<"A">>
DirDPdf == <<"d",".","p","d","f">>

\* Entries the input tree is built from, in the order a listing yields them:
\* files and directories, at several depths, with allowed, disallowed,
\* upper-case and missing extensions.
Pool ==
  << [dir |-> <<>>,              name |-> <<"r",".","p","d","f">>,         kind |-> "file"],
    [dir |-> <<>>,              name |-> <<"r",".","t","x","t">>,         kind |-> "file"],
    [dir |-> <<DirA>>,          name |-> <<"a"," ","b",".","P","D","F">>, kind |-> "file"],
    [dir |-> <<DirA>>,          name |-> <<"a","_","b",".","p","d","f">>, kind |-> "file"],
    [dir |-> <<DirA, DirDPdf>>, name |-> <<"n",".","T","x","t">>,         kind |-> "file"],
    [dir |-> <<>>,              name |-> <<".","p","d","f">>,             kind |-> "file"],
    [dir |-> <<DirA>>,          name |-> <<"s",".","i","n","i">>,         kind |-> "file"],
    [dir |-> <<>>,              name |-> <<"T","h","u","m","b","s",".","d","b">>, kind |-> "file"],
    [dir |-> <<>>,              name |-> <<"e",".","d","o","c","x">>,     kind |-> "dir"] >>

\* The entries of Pool at the positions S, in the order of Pool.
Listing(S) ==
  [i \in 1..Cardinality(S) |->
     Pool[CHOOSE x \in S : Cardinality({y \in S : y < x}) = i - 1]]

\* Input trees: up to MaxEntries entries of Pool, in directory-listing order.
Trees ==
  { Listing(S) : S \in {T \in SUBSET (1..Len(Pool)) : Cardinality(T) <= MaxEntries} }

\* Values of --api-url.
Urls ==
  { <<"n","o","t","-","a","-","u","r","l">>,
    <<"h",":","x">>,
    <<"/","/","x">>,
    <<"h",":","/","/">>,
    <<"h",":","/","/","[","x">>,
    <<"H",":","/","/","x","/">> }

\* What one upload can meet: the file cannot be opened, the request raises,
\* or a response arrives with a status and a body that parses or not.
NoBody == JNull
OpenError == [t |-> "open_error", status |-> 0, parses |-> FALSE, body |-> NoBody]
Outcomes ==
  { OpenError,
    [t |-> "request_error", status |-> 0,   parses |-> FALSE, body |-> NoBody],
    [t |-> "response",      status |-> 500, parses |-> TRUE,
     body |-> JObj(<<[key |-> "detail", val |-> JStr(<<"n","o">>)]>>)],
    [t |-> "response",      status |-> 200, parses |-> FALSE, body |-> NoBody] }
  \cup { [t |-> "response", status |-> 200, parses |-> TRUE, body |-> j] : j \in JsonValues }

\* ------------------------------------------------------------ the state
VARIABLES
  url_arg,      \* --api-url as given
  input_exists, \* whether the resolved --input-dir exists
  tree,         \* the entries below input_dir, in listing order
  pc,           \* where main() is
  exit_code,    \* the process's exit status, -1 while it runs
  ctor_called,  \* DocumentProcessor.__init__ was entered
  api_url,      \* self.api_url
  out_dirs,     \* directories that exist at and below output_dir
  out_files,    \* files below output_dir and their contents
  scanned,      \* input_dir was enumerated
  files,        \* the list get_all_files returned
  idx,          \* position of the loop in files
  session,      \* the aiohttp.ClientSession: "none", "open", "closed"
  inflight,     \* the positions whose request awaits its response
  attempts,     \* positions process_single_file was called for, in order
  requests,     \* the POSTs issued, in order
  status,       \* per position: "pending", "succeeded", "failed"
  console,      \* the lines printed
  saves,        \* the calls of save_outputs, in order
  api,          \* the outcome each position met in the first run
  run,          \* 1 in the first run of the tool, 2 in the second
  out1          \* the output tree left by the first run

vars == << url_arg, input_exists, tree, pc, exit_code, ctor_called, api_url,
           out_dirs, out_files, scanned, files, idx, session, inflight,
           attempts, requests, status, console, saves, api, run, out1 >>

JSON_DIR == <<"j","s","o","n">>
MD_DIR   == <<"m","a","r","k","d","o","w","n">>
JSON_EXT == <<".","j","s","o","n">>
MD_EXT   == <<".","m","d">>
ENDPOINT == <<"/","p","a","r","s","e","_","d","o","c","u","m","e","n","t","/","p","p","t">>

NoFiles == [p \in {} |-> <<>>]

\* Path.mkdir(parents=True, exist_ok=True): the directory and its ancestors.
Prefixes(path) == { SubSeq(path, 1, k) : k \in 0..Len(path) }

\* A write that appends to what the file holds.
WriteFile_Append(fs, path, content) ==
  [p \in DOMAIN fs \cup {path} |->
     IF p = path THEN (IF p \in DOMAIN fs THEN fs[p] ELSE <<>>) \o content
     ELSE fs[p]]

\* open(path, 'w') followed by a write: create or truncate, then the content.
WriteFile(fs, path, content) ==
  [p \in DOMAIN fs \cup {path} |-> IF p = path THEN content ELSE fs[p]]

\* open(path, 'w') when the write that follows raises: the file is left empty.
OpenForWrite(fs, path) == WriteFile(fs, path, <<>>)

\* Path.rglob('*'): every entry below input_dir, the directories that hold
\* the entries included.
RECURSIVE rglob(_)
rglob(t) ==
  IF t = <<>> THEN <<>>
  ELSE LET e    == t[Len(t)]
           init == rglob(SubSeq(t, 1, Len(t) - 1))
           dirs == [k \in 1..Len(e.dir) |->
                      [dir |-> SubSeq(e.dir, 1, k - 1), name |-> e.dir[k], kind |-> "dir"]]
           new  == SelectSeq(dirs \o <<e>>,
                             LAMBDA x : \A i \in 1..Len(init) : init[i] # x)
       IN init \o new

\* DocumentProcessor.get_all_files
get_all_files(t) ==
  SelectSeq(rglob(t), LAMBDA e : e.kind = "file" /\ should_process_file(e.name))

\* The two artifact paths save_outputs computes, relative to output_dir.
json_path(f) == <<JSON_DIR>> \o f.dir \o <<get_safe_filename(Stem(f.name)) \o JSON_EXT>>
md_path(f)   == <<MD_DIR>> \o f.dir \o <<get_safe_filename(Stem(f.name)) \o MD_EXT>>

\* save_outputs creating the text artifact whether or not there is a text.
save_outputs_AlwaysText(f, data, dirs, fs) ==
  LET rel     == get_relative_path(f)
      dirs2   == dirs \cup Prefixes(<<JSON_DIR>> \o rel.parent)
                      \cup Prefixes(<<MD_DIR>> \o rel.parent)
      fs2     == WriteFile(fs, json_path(f), Dump(data))
      has     == ContainsText(data)
      txt     == TextToWrite(data)
  IN IF has = "TypeError"
     THEN [dirs |-> dirs2, fs |-> fs2, md |-> FALSE, raised |-> TRUE]
     ELSE IF has = "no"
     THEN [dirs |-> dirs2, fs |-> OpenForWrite(fs2, md_path(f)),
           md |-> TRUE, raised |-> FALSE]
     ELSE IF txt.error
     THEN [dirs |-> dirs2, fs |-> OpenForWrite(fs2, md_path(f)),
           md |-> TRUE, raised |-> TRUE]
     ELSE [dirs |-> dirs2, fs |-> WriteFile(fs2, md_path(f), txt.chars),
           md |-> TRUE, raised |-> FALSE]

\* DocumentProcessor.save_outputs: the directories and files afterwards,
\* whether the text artifact was opened, and whether the call raised.
save_outputs(f, data, dirs, fs) ==
  LET rel     == get_relative_path(f)
      dirs2   == dirs \cup Prefixes(<<JSON_DIR>> \o rel.parent)
                      \cup Prefixes(<<MD_DIR>> \o rel.parent)
      fs2     == WriteFile(fs, json_path(f), Dump(data))
      has     == ContainsText(data)
      txt     == TextToWrite(data)
  IN IF has = "TypeError"
     THEN [dirs |-> dirs2, fs |-> fs2, md |-> FALSE, raised |-> TRUE]
     ELSE IF has = "no"
     THEN [dirs |-> dirs2, fs |-> fs2, md |-> FALSE, raised |-> FALSE]
     ELSE IF txt.error
     THEN [dirs |-> dirs2, fs |-> OpenForWrite(fs2, md_path(f)),
           md |-> TRUE, raised |-> TRUE]
     ELSE [dirs |-> dirs2, fs |-> WriteFile(fs2, md_path(f), txt.chars),
           md |-> TRUE, raised |-> FALSE]

Line(msg, i) == [msg |-> msg, file |-> i]

Init ==
  /\ url_arg \in Urls
  /\ input_exists \in BOOLEAN
  /\ tree \in Trees
  /\ (~input_exists => tree = <<>>)
  /\ pc = "parse_args"
  /\ exit_code = -1
  /\ ctor_called = FALSE
  /\ api_url = <<>>
  /\ out_dirs = {}
  /\ out_files = NoFiles
  /\ scanned = FALSE
  /\ files = <<>>
  /\ idx = 0
  /\ session = "none"
  /\ inflight = {}
  /\ attempts = <<>>
  /\ requests = <<>>
  /\ status = <<>>
  /\ console = <<>>
  /\ saves = <<>>
  /\ api = <<>>
  /\ run = 1
  /\ out1 = [dirs |-> {}, fs |-> NoFiles]

\* ------------------------------------------------------------- main()
\* parser.parse_args(): argparse applies validate_url to --api-url; on
\* ArgumentTypeError it prints the usage error and exits with status 2.
ParseArgs ==
  /\ pc = "parse_args"
  /\ IF validate_url(url_arg)
     THEN /\ pc' = "construct"
          /\ UNCHANGED << exit_code, console >>
     ELSE /\ pc' = "exited"
          /\ exit_code' = 2
          /\ console' = Append(console, Line("usage error: Invalid URL format", 0))
  /\ UNCHANGED << url_arg, input_exists, tree, ctor_called, api_url, out_dirs,
                  out_files, scanned, files, idx, session, inflight, attempts,
                  requests, status, saves, api, run, out1 >>

\* __init__ creating the output directories before it checks input_dir.
Construct_MkdirFirst ==
  /\ pc = "construct"
  /\ ctor_called' = TRUE
  /\ api_url' = rstrip(url_arg)
  /\ IF ~input_exists
     THEN /\ console' = Append(console, Line("Error: Input directory does not exist", 0))
          /\ exit_code' = 1
          /\ pc' = "exited"
          /\ out_dirs' = out_dirs \cup {<<>>, <<JSON_DIR>>, <<MD_DIR>>}
     ELSE /\ out_dirs' = out_dirs \cup {<<>>, <<JSON_DIR>>, <<MD_DIR>>}
          /\ console' = console \o << Line("Input directory", 0), Line("Output directory", 0) >>
          /\ pc' = "process_directory"
          /\ UNCHANGED exit_code
  /\ UNCHANGED << url_arg, input_exists, tree, out_files, scanned, files, idx,
                  session, inflight, attempts, requests, status, saves, api,
                  run, out1 >>

\* DocumentProcessor.__init__, and main's `except ValueError` around it.
Construct ==
  /\ pc = "construct"
  /\ ctor_called' = TRUE
  /\ api_url' = rstrip(url_arg)
  /\ IF ~input_exists
     THEN /\ console' = Append(console, Line("Error: Input directory does not exist", 0))
          /\ exit_code' = 1
          /\ pc' = "exited"
          /\ UNCHANGED out_dirs
     ELSE /\ out_dirs' = out_dirs \cup {<<>>, <<JSON_DIR>>, <<MD_DIR>>}
          /\ console' = console \o << Line("Input directory", 0), Line("Output directory", 0) >>
          /\ pc' = "process_directory"
          /\ UNCHANGED exit_code
  /\ UNCHANGED << url_arg, input_exists, tree, out_files, scanned, files, idx,
                  session, inflight, attempts, requests, status, saves, api,
                  run, out1 >>

\* process_directory opening the session before it looks at the file list.
ProcessDirectory_SessionFirst ==
  /\ pc = "process_directory"
  /\ scanned' = TRUE
  /\ files' = get_all_files(tree)
  /\ status' = [i \in 1..Len(files') |-> "pending"]
  /\ IF Len(files') = 0
     THEN /\ console' = Append(console, Line("No processable files found", 0))
          /\ exit_code' = 0
          /\ pc' = "exited"
          /\ session' = "closed"
          /\ UNCHANGED idx
     ELSE /\ console' = Append(console, Line("Found files to process", Len(files')))
          /\ session' = "open"
          /\ idx' = 1
          /\ pc' = "loop"
          /\ UNCHANGED exit_code
  /\ UNCHANGED << url_arg, input_exists, tree, ctor_called, api_url, out_dirs,
                  out_files, inflight, attempts, requests, saves, api, run, out1 >>

\* process_directory up to the loop: discovery, the zero-file return (after
\* which main returns 0), or the opening of the session.
ProcessDirectory ==
  /\ pc = "process_directory"
  /\ scanned' = TRUE
  /\ files' = get_all_files(tree)
  /\ status' = [i \in 1..Len(files') |-> "pending"]
  /\ IF Len(files') = 0
     THEN /\ console' = Append(console, Line("No processable files found", 0))
          /\ exit_code' = 0
          /\ pc' = "exited"
          /\ UNCHANGED << session, idx >>
     ELSE /\ console' = Append(console, Line("Found files to process", Len(files')))
          /\ session' = "open"
          /\ idx' = 1
          /\ pc' = "loop"
          /\ UNCHANGED exit_code
  /\ UNCHANGED << url_arg, input_exists, tree, ctor_called, api_url, out_dirs,
                  out_files, inflight, attempts, requests, saves, api, run, out1 >>

\* The outcome a position meets: any in the first run, the first run's in
\* the second.
MayMeet(i, o) == run = 2 => (i <= Len(api) /\ api[i] = o)

Record(i, o) == IF run = 1 THEN Append(api, o) ELSE api

\* The loop issuing a request and going on without awaiting its response.
StartFile_NoAwait ==
  /\ pc = "loop"
  /\ idx <= Len(files)
  /\ attempts' = Append(attempts, idx)
  /\ \E openFails \in BOOLEAN :
       /\ run = 2 => (idx <= Len(api) /\ openFails = (api[idx] = OpenError))
       /\ IF openFails
          THEN /\ api' = Record(idx, OpenError)
               /\ console' = console \o << Line("Processing", idx),
                                           Line("Error processing", idx),
                                           Line("Failed to process", idx) >>
               /\ status' = [status EXCEPT ![idx] = "failed"]
               /\ idx' = idx + 1
               /\ UNCHANGED << pc, requests, inflight >>
          ELSE /\ console' = Append(console, Line("Processing", idx))
               /\ requests' = Append(requests,
                                     [file |-> idx, url |-> api_url \o ENDPOINT])
               /\ inflight' = inflight \cup {idx}
               /\ idx' = idx + 1
               /\ UNCHANGED << pc, api, status >>
  /\ UNCHANGED << url_arg, input_exists, tree, exit_code, ctor_called, api_url,
                  out_dirs, out_files, scanned, files, session, saves, run, out1 >>

\* One iteration of the loop up to the first suspension: the progress line,
\* the call of process_single_file, open(file_path, 'rb') and session.post.
\* When open raises, the handler prints the error and returns None, and the
\* loop prints the failure and moves on; no request is issued.
StartFile ==
  /\ pc = "loop"
  /\ idx <= Len(files)
  /\ attempts' = Append(attempts, idx)
  /\ \E openFails \in BOOLEAN :
       /\ run = 2 => (idx <= Len(api) /\ openFails = (api[idx] = OpenError))
       /\ IF openFails
          THEN /\ api' = Record(idx, OpenError)
               /\ console' = console \o << Line("Processing", idx),
                                           Line("Error processing", idx),
                                           Line("Failed to process", idx) >>
               /\ status' = [status EXCEPT ![idx] = "failed"]
               /\ idx' = idx + 1
               /\ UNCHANGED << pc, requests, inflight >>
          ELSE /\ console' = Append(console, Line("Processing", idx))
               /\ requests' = Append(requests,
                                     [file |-> idx, url |-> api_url \o ENDPOINT])
               /\ inflight' = inflight \cup {idx}
               /\ pc' = "await"
               /\ UNCHANGED << api, status, idx >>
  /\ UNCHANGED << url_arg, input_exists, tree, exit_code, ctor_called, api_url,
                  out_dirs, out_files, scanned, files, session, saves, run, out1 >>

\* process_single_file without the status check.
process_single_file_IgnoreStatus(o) ==
  IF o.t = "request_error" THEN [none |-> TRUE, data |-> JNull]
  ELSE IF ~o.parses THEN [none |-> TRUE, data |-> JNull]
  ELSE [none |-> FALSE, data |-> o.body]

\* DocumentProcessor.process_single_file once the request was issued: the
\* parsed body on status 200, None on any other status or on an exception
\* of the request or of response.json().
process_single_file(o) ==
  IF o.t = "request_error" THEN [none |-> TRUE, data |-> NoBody]
  ELSE IF o.status # 200 THEN [none |-> TRUE, data |-> NoBody]
  ELSE IF ~o.parses THEN [none |-> TRUE, data |-> NoBody]
  ELSE [none |-> FALSE, data |-> o.body]

\* `if response_data:` in process_directory.
HasResult(r) == ~r.none /\ Truthy(r.data)

\* The rest of the iteration: the response (or the exception) arrives,
\* process_single_file returns, and the loop saves the outputs or reports
\* the failure. An exception of save_outputs leaves the loop and the
\* session, and main's `except Exception` returns 1.
Response ==
  /\ pc = "await"
  /\ \E o \in Outcomes :
       /\ o # OpenError
       /\ MayMeet(idx, o)
       /\ api' = Record(idx, o)
       /\ LET r == process_single_file(o)
              f == files[idx]
              w == save_outputs(f, r.data, out_dirs, out_files)
              err == IF r.none THEN << Line("Error processing", idx) >> ELSE <<>>
          IN IF HasResult(r)
             THEN /\ out_dirs' = w.dirs
                  /\ out_files' = w.fs
                  /\ saves' = Append(saves,
                       [file |-> idx, data |-> r.data, raised |-> w.raised,
                        json |-> w.fs[json_path(f)], md |-> w.md,
                        text |-> IF w.md THEN w.fs[md_path(f)] ELSE <<>>])
                  /\ IF w.raised
                     THEN /\ console' = Append(console, Line("Unexpected error", 0))
                          /\ session' = "closed"
                          /\ exit_code' = 1
                          /\ pc' = "exited"
                          /\ UNCHANGED << status, idx >>
                     ELSE /\ console' = Append(console, Line("Successfully processed", idx))
                          /\ status' = [status EXCEPT ![idx] = "succeeded"]
                          /\ idx' = idx + 1
                          /\ pc' = "loop"
                          /\ UNCHANGED << session, exit_code >>
             ELSE /\ console' = console \o err \o << Line("Failed to process", idx) >>
                  /\ status' = [status EXCEPT ![idx] = "failed"]
                  /\ idx' = idx + 1
                  /\ pc' = "loop"
                  /\ UNCHANGED << out_dirs, out_files, saves, session, exit_code >>
  /\ inflight' = inflight \ {idx}
  /\ UNCHANGED << url_arg, input_exists, tree, ctor_called, api_url, scanned,
                  files, attempts, requests, run, out1 >>

\* The loop is over: the session is closed, process_directory returns and
\* main returns 0.
Finish ==
  /\ pc = "loop"
  /\ idx > Len(files)
  /\ session' = "closed"
  /\ exit_code' = 0
  /\ pc' = "exited"
  /\ UNCHANGED << url_arg, input_exists, tree, ctor_called, api_url, out_dirs,
                  out_files, scanned, files, idx, inflight, attempts, requests,
                  status, console, saves, api, run, out1 >>

\* The tool is started a second time with the same command line on the same
\* input tree and output directory.
Rerun ==
  /\ pc = "exited"
  /\ run = 1
  /\ run' = 2
  /\ out1' = [dirs |-> out_dirs, fs |-> out_files]
  /\ pc' = "parse_args"
  /\ exit_code' = -1
  /\ ctor_called' = FALSE
  /\ api_url' = <<>>
  /\ scanned' = FALSE
  /\ files' = <<>>
  /\ idx' = 0
  /\ session' = "none"
  /\ inflight' = {}
  /\ attempts' = <<>>
  /\ requests' = <<>>
  /\ status' = <<>>
  /\ console' = <<>>
  /\ saves' = <<>>
  /\ UNCHANGED << url_arg, input_exists, tree, out_dirs, out_files, api >>

Next == ParseArgs \/ Construct \/ ProcessDirectory \/ StartFile \/ Response \/ Finish

Spec == Init /\ [][Next]_vars

NextTwice == Next \/ Rerun

SpecTwice == Init /\ [][NextTwice]_vars

\* ================================================================ claims
Range(q) == { q[i] : i \in 1..Len(q) }

Printed(msg, i) == Line(msg, i) \in Range(console)

\* An upload that ends in failure: the file cannot be opened, the request
\* raises, the status is not 200, or the body does not decode.
FailedUpload(o) ==
  \/ o.t \in {"open_error", "request_error"}
  \/ o.status # 200
  \/ ~o.parses

Attempted(j)  == j \in Range(attempts)
SavedFor(i)   == \E k \in 1..Len(saves) : saves[k].file = i
RaisedFor(i)  == \E k \in 1..Len(saves) : saves[k].file = i /\ saves[k].raised

\* C1 as stated: when the upload of X fails, X is reported as failed,
\* nothing is raised, and every file after X is uploaded, which at the end
\* of the run means that each of them was at least attempted.
C1_AsStated ==
  \A i \in 1..Len(api) :
    FailedUpload(api[i]) =>
      /\ status[i] = "failed"
      /\ Printed("Failed to process", i)
      /\ (pc = "exited" => \A j \in (i+1)..Len(files) : Attempted(j))

\* C1, amended: when the upload of X fails, X is reported as failed, nothing
\* is raised out of the per-file step (the loop stands past X and no output
\* was written for X), and at the end of the run every file after X was
\* attempted, unless save_outputs raised for a file after X: then the run
\* ended with exit code 1 and every file up to that one was attempted.
C1_FailureIsolated ==
  \A i \in 1..Len(api) :
    FailedUpload(api[i]) =>
      /\ status[i] = "failed"
      /\ Printed("Failed to process", i)
      /\ ~SavedFor(i)
      /\ idx > i
      /\ (pc = "exited" =>
            \/ exit_code = 0 /\ \A j \in (i+1)..Len(files) : Attempted(j)
            \/ exit_code = 1 /\ \E y \in (i+1)..Len(files) :
                 RaisedFor(y) /\ \A j \in (i+1)..y : Attempted(j))

\* A failed upload in the middle of the list, followed by an upload.
C1_Witness ==
  /\ pc = "exited"
  /\ exit_code = 0
  /\ Len(api) >= 2
  /\ api[1].t = "response" /\ api[1].status = 500
  /\ status[1] = "failed"
  /\ Len(requests) = 2

\* The entries below input_dir: those of the tree and the directories that
\* hold them.
TreeEntries ==
  Range(tree) \cup
  UNION { { [dir |-> SubSeq(e.dir, 1, k - 1), name |-> e.dir[k], kind |-> "dir"]
              : k \in 1..Len(e.dir) } : e \in Range(tree) }

AllowedExtensions ==
  { <<"p","p","t">>, <<"p","p","t","x">>, <<"d","o","c">>,
    <<"d","o","c","x">>, <<"p","d","f">>, <<"t","x","t">> }

SameIgnoringCase(a, b) ==
  Len(a) = Len(b) /\ \A i \in 1..Len(a) : LowerChar(a[i]) = LowerChar(b[i])

\* The name is a non-empty stem, a dot, and an allowed extension in any case.
HasAllowedExtension(name) ==
  \E k \in 2..(Len(name) - 1) :
    /\ name[k] = "."
    /\ \A j \in (k+1)..Len(name) : name[j] # "."
    /\ \E x \in AllowedExtensions : SameIgnoringCase(SubSeq(name, k + 1, Len(name)), x)

\* C2: get_all_files returns exactly the regular files below input_dir, at
\* any depth, whose extension is allowed (case-insensitively) and whose name
\* is not ignored; no directory is returned, and no file twice.
C2_Discovery ==
  scanned =>
    /\ \A e \in TreeEntries :
         (e \in Range(files)) <=>
           (e.kind = "file" /\ HasAllowedExtension(e.name) /\ e.name \notin IGNORE_FILES)
    /\ Range(files) \subseteq { e \in TreeEntries : e.kind = "file" }
    /\ \A i, j \in 1..Len(files) : i # j => files[i] # files[j]

\* A scan that met a nested file with an upper-case extension, which it
\* selected, below a directory named like a document, which it did not.
C2_Witness ==
  /\ scanned
  /\ \E e \in Range(files) : Len(e.dir) = 2 /\ Suffix(e.name) \notin VALID_EXTENSIONS
  /\ \E d \in TreeEntries : d.kind = "dir" /\ HasAllowedExtension(d.name)
  /\ \E e \in Range(tree) : e.kind = "file" /\ e \notin Range(files)

\* C3 as stated: for every file the loop is done with, a 200 answer whose
\* body parses was handed to save_outputs and the file is marked succeeded,
\* whatever the parsed value; a file is marked failed, without a save, only
\* when the upload yielded no result.
C3_AsStated ==
  \A i \in 1..Len(api) :
    i < idx =>
      /\ (api[i].t = "response" /\ api[i].status = 200 /\ api[i].parses) =>
            /\ status[i] = "succeeded"
            /\ \E k \in 1..Len(saves) : saves[k].file = i /\ saves[k].data = api[i].body
      /\ status[i] = "failed" => (FailedUpload(api[i]) /\ ~SavedFor(i))

\* The url has no scheme or no host, or does not parse.
NotAbsoluteUrl(u) ==
  LET r == urlparse(u) IN r.error \/ r.scheme = <<>> \/ r.netloc = <<>>

NothingTouched ==
  /\ ~scanned
  /\ out_dirs = {}
  /\ out_files = NoFiles
  /\ requests = <<>>
  /\ attempts = <<>>
  /\ session = "none"

C5_AsStated ==
  pc = "exited" =>
    \A i, j \in 1..Len(files) :
      (i # j /\ status[i] = "succeeded" /\ status[j] = "succeeded") =>
         /\ json_path(files[i]) # json_path(files[j])
         /\ md_path(files[i]) # md_path(files[j])

\* The result is a JSON object with a member named text.
HasTextField(j) ==
  j.k = "object" /\ \E n \in 1..Len(j.items) : j.items[n].key = "text"

TextField(j) ==
  j.items[CHOOSE n \in 1..Len(j.items) : j.items[n].key = "text"].val

\* What the latest call of save_outputs wrote is what the output tree holds.
LastSaveOnDisk ==
  saves # <<>> =>
    LET s == saves[Len(saves)]
        f == files[s.file]
    IN /\ json_path(f) \in DOMAIN out_files
       /\ out_files[json_path(f)] = s.json
       /\ s.md => (md_path(f) \in DOMAIN out_files /\ out_files[md_path(f)] = s.text)

\* C6 as stated: every call of save_outputs with a structured result, a
\* JSON object, writes the structured-data artifact, and writes the text
\* artifact if and only if the result has a text field, with the field's
\* value as its content.
C6_AsStated ==
  /\ LastSaveOnDisk
  /\ \A k \in 1..Len(saves) :
       LET s == saves[k]
       IN s.data.k = "object" =>
            /\ s.json = Dump(s.data)
            /\ s.md <=> HasTextField(s.data)
            /\ s.md => s.text = TextField(s.data).v

\* C6, amended: every call of save_outputs writes the structured-data
\* artifact; when the result is a JSON object, the text artifact is opened
\* by the call if and only if the object has a text member; its content is
\* that member's value unchanged when the value is a string, and when it is
\* not a string the artifact is left empty and the call raises.
C6_TextIffField ==
  /\ LastSaveOnDisk
  /\ \A k \in 1..Len(saves) :
       LET s == saves[k]
       IN /\ s.json = Dump(s.data)
          /\ s.data.k = "object" =>
               /\ s.md <=> HasTextField(s.data)
               /\ s.md =>
                    IF TextField(s.data).k = "string"
                    THEN s.text = TextField(s.data).v /\ ~s.raised
                    ELSE s.text = <<>> /\ s.raised
               /\ ~s.md => ~s.raised

\* One call wrote a text artifact with its text, another call wrote only
\* the structured-data artifact.
C6_Witness ==
  /\ \E k \in 1..Len(saves) :
       saves[k].md /\ saves[k].text = <<"h","i">> /\ ~saves[k].raised
  /\ \E k \in 1..Len(saves) :
       ~saves[k].md /\ saves[k].data.k = "object" /\ saves[k].json # <<>>

\* C7: after a second run on the same input tree and output directory, with
\* the API answering each file as in the first run, the output tree is the
\* one the first run left: the same directories, artifacts and contents.
C7_Idempotent ==
  (run = 2 /\ pc = "exited") =>
     (out_files = out1.fs /\ out_dirs = out1.dirs)

\* A second run that rewrote a structured-data and a text artifact.
C7_Witness ==
  /\ run = 2
  /\ pc = "exited"
  /\ \E k \in 1..Len(saves) : saves[k].md /\ saves[k].text # <<>>
  /\ Len(saves) >= 2

\* C8: when input_dir does not exist, the run ends with the configuration
\* error and exit code 1 and nothing was touched: no output directory, no
\* scan, no request.
C8_MissingInput ==
  (ctor_called /\ ~input_exists) =>
     /\ pc = "exited"
     /\ exit_code = 1
     /\ Printed("Error: Input directory does not exist", 0)
     /\ NothingTouched

\* The constructor was entered for a missing input_dir.
C8_Witness ==
  ctor_called /\ ~input_exists /\ pc = "exited"

\* C9: when input_dir exists and discovery returns no file, the process
\* reports it and exits with code 0; no request was issued, no session was
\* opened, and the output directory holds its json and markdown
\* subdirectories and nothing else.
C9_NoFiles ==
  (scanned /\ files = <<>>) =>
     /\ pc = "exited"
     /\ exit_code = 0
     /\ Printed("No processable files found", 0)
     /\ requests = <<>>
     /\ attempts = <<>>
     /\ session = "none"
     /\ out_files = NoFiles
     /\ out_dirs = {<<>>, <<JSON_DIR>>, <<MD_DIR>>}

\* A scan of a tree that holds entries, none of them eligible.
C9_Witness ==
  /\ scanned
  /\ files = <<>>
  /\ Len(tree) >= 2
  /\ exit_code = 0

\* C10 as stated: the requests issued so far are those for a prefix of the
\* file list, one per file and in list order; at most one is in flight, and
\* a file's request is issued only when its predecessors are finished.
C10_AsStated ==
  /\ \A k \in 1..Len(requests) : requests[k].file = k
  /\ Cardinality(inflight) <= 1
  /\ \A k \in 1..Len(requests) :
       \A j \in 1..(requests[k].file - 1) : status[j] # "pending"

\* C10, amended: the upload attempts made so far are those for a prefix of
\* the file list, in list order; the requests issued are those of the
\* attempted files that could be opened, at most one per file and in list
\* order; at most one request is in flight, that of the current file; and a
\* file is attempted only when every file before it is finished, its
\* output written if it had a result.
C10_Sequential ==
  /\ \A k \in 1..Len(attempts) : attempts[k] = k
  /\ \A k \in 1..Len(requests) : Attempted(requests[k].file)
  /\ \A k, l \in 1..Len(requests) : k < l => requests[k].file < requests[l].file
  /\ \A j \in 1..Len(api) :
       (api[j] = OpenError) <=> (\A k \in 1..Len(requests) : requests[k].file # j)
  /\ Cardinality(inflight) <= 1
  /\ inflight \subseteq {idx}
  /\ \A k \in 1..Len(attempts) :
       \A j \in 1..(attempts[k] - 1) :
         /\ status[j] # "pending"
         /\ status[j] = "succeeded" => SavedFor(j)

\* A file that could not be opened, then a request in flight for the next.
C10_Witness ==
  /\ Len(attempts) = 2
  /\ api = <<OpenError>>
  /\ inflight = {2}
  /\ Len(requests) = 1

====
